---- MODULE Spec2Model ----
(***************************************************************************)
(* Inventory ledger of the military asset management system: the balance  *)
(* store (assets), the movement journal (purchases, transfers,            *)
(* assignments, expenditures) and the request handlers that change them.  *)
(*                                                                         *)
(* The repository holds two backends.  The "prisma" backend is            *)
(* routes/transfers.js, routes/assignments.js and the Prisma purchases    *)
(* router; the "mongo" backend is the MongoDB routers for purchases,      *)
(* transfers, assignments and assets.  A deployment runs one of them; the *)
(* variable backend says which, and every handler is guarded by it.       *)
(*                                                                         *)
(* A handler that awaits a read, decides, and then awaits a write is two  *)
(* steps: the first leaves a request in inflight, the second performs the *)
(* write.  Other requests may run between the two, as they can between    *)
(* two awaits of a Node.js handler.  A handler whose reads and writes are *)
(* inside one database transaction, or that performs a single write, is   *)
(* one step.                                                               *)
(***************************************************************************)
EXTENDS Integers, Sequences, FiniteSets, Bags, TLC

\* ---------------------------------------------------------------- bounds
MaxQty == 2
MaxRecords == 3
MaxInflight == 2
MaxDate == 1

\* ------------------------------------------------------- reference data
Bases == {"b1", "b2"}
EquipmentTypes == {"e1"}
Quantities == 0..MaxQty
UnitPrices == {0, 3}
Dates == 1..MaxDate
NULL == "null"

\* The users of the seed: an admin, a base commander and a logistics officer.
Users == {"admin", "commander", "logistics"}
UserRole == [u \in Users |->
    CASE u = "admin" -> "admin"
      [] u = "commander" -> "base_commander"
      [] u = "logistics" -> "logistics_officer"]
UserBases == [u \in Users |->
    CASE u = "admin" -> {}
      [] u = "commander" -> {"b1"}
      [] u = "logistics" -> {"b2"}]

VARIABLES
    backend,       \* "prisma" or "mongo": which set of routers is deployed
    assets,        \* the balance rows, in insertion order
    purchases,     \* the purchase records
    transfers,     \* the transfer records; a transfer's id is its index
    assignments,   \* the assignment records
    expenditures,  \* the expenditure records
    inflight       \* bag of requests between their read and their write

vars == <<backend, assets, purchases, transfers, assignments, expenditures,
          inflight>>
ledger == <<assets, purchases, transfers, assignments, expenditures>>

\* ------------------------------------------------------------- helpers
Respond(op, status, error) == [op |-> op, status |-> status, error |-> error]

hasRole(roles, u) == UserRole[u] \in roles

SetMin(S) == CHOOSE x \in S : \A y \in S : x <= y

\* Indexes of the balance rows of a (base, equipment type) pair.
AssetRows(as, b, e) ==
    {i \in DOMAIN as : as[i].base_id = b /\ as[i].equipment_type_id = e}

\* findFirst / findOne: the first row of the pair, 0 when there is none.
FindAsset(as, b, e) ==
    IF AssetRows(as, b, e) = {} THEN 0 ELSE SetMin(AssetRows(as, b, e))

\* updateMany: every row of the pair gets the increments; none is created.
UpdateManyAssets(as, b, e, dq, dc) ==
    [i \in DOMAIN as |->
        IF i \in AssetRows(as, b, e)
        THEN [as[i] EXCEPT !.quantity = @ + dq, !.closing_balance = @ + dc]
        ELSE as[i]]

\* update by id.
UpdateAsset(as, i, dq, dc) ==
    [as EXCEPT ![i].quantity = @ + dq, ![i].closing_balance = @ + dc]

NewAsset(b, e, q, c) ==
    [base_id |-> b, equipment_type_id |-> e, quantity |-> q, closing_balance |-> c]

\* The on-hand quantity of a pair: the sum over its rows, 0 when it has none.
RECURSIVE SumRows(_, _)
SumRows(as, S) ==
    IF S = {} THEN 0
    ELSE LET i == CHOOSE x \in S : TRUE IN as[i].quantity + SumRows(as, S \ {i})
Balance(b, e) == SumRows(assets, AssetRows(assets, b, e))

InflightCount == BagCardinality(inflight)
Requests == BagToSet(inflight)

\* The documents that requests have written so far (journal records, and in
\* the MongoDB backend the asset rows, which start empty) plus those that
\* requests in flight are about to write; the model stops accepting requests
\* that write a new document at MaxRecords.
CreateOps == {"createAssignment", "recordExpenditure"}
RECURSIVE BagCount(_, _)
BagCount(B, S) ==
    IF S = {} THEN 0
    ELSE LET r == CHOOSE x \in S : TRUE
         IN (IF r.op \in CreateOps THEN CopiesIn(r, B) ELSE 0) + BagCount(B, S \ {r})
RecordCount ==
    Len(purchases) + Len(transfers) + Len(assignments) + Len(expenditures)
        + BagCount(inflight, Requests)
        + (IF backend = "mongo" THEN Len(assets) ELSE 0)
Request(op, id, q, u) == [op |-> op, id |-> id, quantity |-> q, user |-> u]
Enqueue(r) == inflight' = inflight (+) SetToBag({r})
Dequeue(r) == inflight' = inflight (-) SetToBag({r})

\* ------------------------------------------------------------------ Init
\* Prisma: the asset rows come from the seed script (no router creates one),
\* with no stock.  Mongo: rows are created on demand, so the store is empty.
SeededAssets ==
    { <<>>,
      << NewAsset("b1", "e1", 0, 0) >>,
      << NewAsset("b1", "e1", 0, 0), NewAsset("b2", "e1", 0, 0) >> }

Init ==
    /\ backend \in {"prisma", "mongo"}
    /\ assets \in (IF backend = "prisma" THEN SeededAssets ELSE { <<>> })
    /\ purchases = <<>>
    /\ transfers = <<>>
    /\ assignments = <<>>
    /\ expenditures = <<>>
    /\ inflight = EmptyBag

\* ------------------------------------------------ purchases (prisma)
hasBaseAccess(u, baseId) ==
    UserRole[u] = "admin" \/ baseId \in UserBases[u]

\* deleted marks a row that DELETE /api/purchases/:id has removed; rows keep
\* their index so that an id names the same purchase for as long as it exists.
NewPurchase(b, e, q, p, d, u) ==
    [base_id |-> b, equipment_type_id |-> e, quantity |-> q, unitPrice |-> p,
     totalAmount |-> q * p, purchaseDate |-> d, deleted |-> FALSE]

\* POST /api/purchases: the role and base checks of the middleware chain, the
\* validation result, then one transaction.
PrismaCreatePurchaseResponse(u, b, e, q, p) ==
    IF ~hasRole({"logistics_officer", "admin"}, u) \/ ~hasBaseAccess(u, b)
    THEN Respond("createPurchase", 403, "forbidden")
    ELSE IF q <= 0 \/ p <= 0
    THEN Respond("createPurchase", 400, "validation")
    ELSE Respond("createPurchase", 201, "ok")

PrismaCreatePurchase(u, b, e, q, p, d) ==
    /\ backend = "prisma"
    /\ IF PrismaCreatePurchaseResponse(u, b, e, q, p).status = 201
       THEN /\ RecordCount < MaxRecords
            /\ purchases' = Append(purchases, NewPurchase(b, e, q, p, d, u))
            /\ assets' = UpdateManyAssets(assets, b, e, q, q)
            /\ UNCHANGED <<transfers, assignments, expenditures>>
       ELSE UNCHANGED ledger
    /\ UNCHANGED <<backend, inflight>>

\* ------------------------------------------------ transfers (prisma)
\* debits and credits are not fields of the stored record: they count how often
\* the transfer's quantity was taken from a source row and added to a
\* destination row, so that "exactly once" can be stated, and completions
\* counts how often the complete transaction ran for the transfer.
\* approved_at is 0 until an approval sets it to a date.
NewTransfer(f, t, e, q, u) ==
    [from_base_id |-> f, to_base_id |-> t, equipment_type_id |-> e,
     quantity |-> q, status |-> "pending", created_by_id |-> u,
     approved_by_id |-> NULL, approved_at |-> 0, debits |-> 0, credits |-> 0,
     completions |-> 0]

\* POST /api/transfers.  hasBaseAccess reads req.body.baseId, which this
\* request does not carry, so it lets only an admin through.
\* The checks of POST /api/transfers as they would be without the comparison
\* of the source quantity with the requested quantity.
PrismaCreateTransferResponseNoStockCheck(u, f, t, e, q) ==
    IF ~hasRole({"logistics_officer", "admin"}, u) \/ UserRole[u] # "admin"
    THEN Respond("createTransfer", 403, "forbidden")
    ELSE IF q <= 0
    THEN Respond("createTransfer", 400, "validation")
    ELSE IF f = t
    THEN Respond("createTransfer", 400, "validation")
    ELSE Respond("createTransfer", 201, "ok")

PrismaCreateTransferResponse(u, f, t, e, q) ==
    IF ~hasRole({"logistics_officer", "admin"}, u) \/ UserRole[u] # "admin"
    THEN Respond("createTransfer", 403, "forbidden")
    ELSE IF q <= 0
    THEN Respond("createTransfer", 400, "validation")
    ELSE IF f = t
    THEN Respond("createTransfer", 400, "validation")
    ELSE IF FindAsset(assets, f, e) = 0 \/ assets[FindAsset(assets, f, e)].quantity < q
    THEN Respond("createTransfer", 400, "insufficient")
    ELSE Respond("createTransfer", 201, "ok")

PrismaCreateTransfer(u, f, t, e, q) ==
    /\ backend = "prisma"
    /\ IF PrismaCreateTransferResponse(u, f, t, e, q).status = 201
       THEN /\ RecordCount < MaxRecords
            /\ transfers' = Append(transfers, NewTransfer(f, t, e, q, u))
       ELSE UNCHANGED transfers
    /\ UNCHANGED <<backend, assets, purchases, assignments, expenditures, inflight>>

\* PUT /api/transfers/:id/approve, up to the status update.  The transfer rows
\* of this router carry from_base_id; the check reads transfer.fromBaseId,
\* which is undefined, so no base list includes it.
PrismaApproveResponse(u, id) ==
    IF ~hasRole({"base_commander", "admin"}, u)
    THEN Respond("approveTransfer", 403, "forbidden")
    ELSE IF id \notin DOMAIN transfers
    THEN Respond("approveTransfer", 404, "not_found")
    ELSE IF transfers[id].status # "pending"
    THEN Respond("approveTransfer", 400, "invalid_state")
    ELSE IF UserRole[u] # "admin"
    THEN Respond("approveTransfer", 403, "forbidden")
    ELSE Respond("approveTransfer", 200, "ok")

PrismaApproveTransferRead(u, id) ==
    /\ backend = "prisma"
    /\ IF PrismaApproveResponse(u, id).status = 200
       THEN /\ InflightCount < MaxInflight
            /\ Enqueue(Request("approveTransfer", id, 0, u))
       ELSE UNCHANGED inflight
    /\ UNCHANGED <<backend, ledger>>

\* The approval as it would be if it moved the stock, as the approval of the
\* MongoDB router does.
PrismaApproveTransferWriteMovingStock(r, now) ==
    /\ backend = "prisma"
    /\ r.op = "approveTransfer"
    /\ BagIn(r, inflight)
    /\ LET t == transfers[r.id]
           debited == UpdateManyAssets(assets, t.from_base_id, t.equipment_type_id,
                                       -t.quantity, -t.quantity)
       IN /\ assets' = UpdateManyAssets(debited, t.to_base_id, t.equipment_type_id,
                                        t.quantity, t.quantity)
          /\ transfers' = [transfers EXCEPT ![r.id].status = "approved",
                                            ![r.id].approved_by_id = r.user,
                                            ![r.id].approved_at = now,
                                            ![r.id].debits = @ + 1]
    /\ Dequeue(r)
    /\ UNCHANGED <<backend, purchases, assignments, expenditures>>

\* prisma.transfer.update: the write does not look at the status again.
PrismaApproveTransferWrite(r, now) ==
    /\ backend = "prisma"
    /\ r.op = "approveTransfer"
    /\ BagIn(r, inflight)
    /\ transfers' = [transfers EXCEPT ![r.id].status = "approved",
                                      ![r.id].approved_by_id = r.user,
                                      ![r.id].approved_at = now]
    /\ Dequeue(r)
    /\ UNCHANGED <<backend, assets, purchases, assignments, expenditures>>

\* PUT /api/transfers/:id/complete, up to the transaction.
PrismaCompleteResponse(u, id) ==
    IF ~hasRole({"logistics_officer", "admin"}, u)
    THEN Respond("completeTransfer", 403, "forbidden")
    ELSE IF id \notin DOMAIN transfers
    THEN Respond("completeTransfer", 404, "not_found")
    ELSE IF transfers[id].status # "approved"
    THEN Respond("completeTransfer", 400, "invalid_state")
    ELSE IF UserRole[u] # "admin"
    THEN Respond("completeTransfer", 403, "forbidden")
    ELSE Respond("completeTransfer", 200, "ok")

PrismaCompleteTransferRead(u, id) ==
    /\ backend = "prisma"
    /\ IF PrismaCompleteResponse(u, id).status = 200
       THEN /\ InflightCount < MaxInflight
            /\ Enqueue(Request("completeTransfer", id, 0, u))
       ELSE UNCHANGED inflight
    /\ UNCHANGED <<backend, ledger>>

\* The transaction: two updateMany and the status update.  updateMany changes
\* the rows that exist; it neither checks the quantity nor creates a row.
PrismaCompleteTransferWrite(r) ==
    /\ backend = "prisma"
    /\ r.op = "completeTransfer"
    /\ BagIn(r, inflight)
    /\ LET t == transfers[r.id]
           debited == UpdateManyAssets(assets, t.from_base_id, t.equipment_type_id,
                                       -t.quantity, -t.quantity)
           credited == UpdateManyAssets(debited, t.to_base_id, t.equipment_type_id,
                                        t.quantity, t.quantity)
           d == IF AssetRows(assets, t.from_base_id, t.equipment_type_id) # {}
                THEN 1 ELSE 0
           c == IF AssetRows(assets, t.to_base_id, t.equipment_type_id) # {}
                THEN 1 ELSE 0
       IN /\ assets' = credited
          /\ transfers' = [transfers EXCEPT ![r.id].status = "completed",
                                            ![r.id].debits = @ + d,
                                            ![r.id].credits = @ + c,
                                            ![r.id].completions = @ + 1]
    /\ Dequeue(r)
    /\ UNCHANGED <<backend, purchases, assignments, expenditures>>

\* PUT /api/transfers/:id/cancel, up to the status update.  transfer.createdById
\* and transfer.fromBaseId / toBaseId are undefined on these rows, so of the
\* three ways to be allowed only the admin role is left.
PrismaCancelResponse(u, id) ==
    IF id \notin DOMAIN transfers
    THEN Respond("cancelTransfer", 404, "not_found")
    ELSE IF transfers[id].status \in {"completed", "cancelled"}
    THEN Respond("cancelTransfer", 400, "invalid_state")
    ELSE IF UserRole[u] # "admin"
    THEN Respond("cancelTransfer", 403, "forbidden")
    ELSE Respond("cancelTransfer", 200, "ok")

PrismaCancelTransferRead(u, id) ==
    /\ backend = "prisma"
    /\ IF PrismaCancelResponse(u, id).status = 200
       THEN /\ InflightCount < MaxInflight
            /\ Enqueue(Request("cancelTransfer", id, 0, u))
       ELSE UNCHANGED inflight
    /\ UNCHANGED <<backend, ledger>>

PrismaCancelTransferWrite(r) ==
    /\ backend = "prisma"
    /\ r.op = "cancelTransfer"
    /\ BagIn(r, inflight)
    /\ transfers' = [transfers EXCEPT ![r.id].status = "cancelled"]
    /\ Dequeue(r)
    /\ UNCHANGED <<backend, assets, purchases, assignments, expenditures>>

\* --------------------------------------- delete purchase (prisma)
\* DELETE /api/purchases/:id removes the row and leaves the asset rows alone.
PrismaDeletePurchaseResponse(u, id) ==
    IF ~hasRole({"admin"}, u)
    THEN Respond("deletePurchase", 403, "forbidden")
    ELSE IF id \notin DOMAIN purchases \/ purchases[id].deleted
    THEN Respond("deletePurchase", 404, "not_found")
    ELSE Respond("deletePurchase", 200, "ok")

PrismaDeletePurchase(u, id) ==
    /\ backend = "prisma"
    /\ IF PrismaDeletePurchaseResponse(u, id).status = 200
       THEN purchases' = [purchases EXCEPT ![id].deleted = TRUE]
       ELSE UNCHANGED purchases
    /\ UNCHANGED <<backend, assets, transfers, assignments, expenditures, inflight>>

\* ------------------------------- assignments and expenditures (prisma)
\* returns and before are not fields of the stored record: returns counts how
\* often the assignment's quantity was added back to its asset row, before is
\* the quantity of that row when the assignment was inserted.
NewAssignment(a, q, st, u) ==
    [asset_id |-> a, quantity |-> q, status |-> st, returns |-> 0,
     before |-> IF a \in DOMAIN assets THEN assets[a].quantity ELSE 0]

NewExpenditure(a, q, u) ==
    [asset_id |-> a, quantity |-> q]

\* POST /api/assignments, up to the transaction.
PrismaCreateAssignmentResponse(u, a, q) ==
    IF ~hasRole({"base_commander", "admin"}, u)
    THEN Respond("createAssignment", 403, "forbidden")
    ELSE IF q <= 0
    THEN Respond("createAssignment", 400, "validation")
    ELSE IF a \notin DOMAIN assets
    THEN Respond("createAssignment", 404, "not_found")
    ELSE IF UserRole[u] # "admin" /\ assets[a].base_id \notin UserBases[u]
    THEN Respond("createAssignment", 403, "forbidden")
    ELSE IF assets[a].quantity < q
    THEN Respond("createAssignment", 400, "insufficient")
    ELSE Respond("createAssignment", 201, "ok")

PrismaCreateAssignmentRead(u, a, q) ==
    /\ backend = "prisma"
    /\ IF PrismaCreateAssignmentResponse(u, a, q).status = 201
       THEN /\ InflightCount < MaxInflight
            /\ RecordCount < MaxRecords
            /\ Enqueue(Request("createAssignment", a, q, u))
       ELSE UNCHANGED inflight
    /\ UNCHANGED <<backend, ledger>>

\* The creation as it would be if it wrote back the quantity it had read minus
\* q instead of decrementing: while another request is under way its write is
\* overwritten, so the row keeps its quantity.
PrismaCreateAssignmentWriteLostUpdate(r) ==
    /\ backend = "prisma"
    /\ r.op = "createAssignment"
    /\ BagIn(r, inflight)
    /\ assets' = IF InflightCount > 1
                 THEN assets
                 ELSE UpdateAsset(assets, r.id, -r.quantity, 0)
    /\ assignments' = Append(assignments, NewAssignment(r.id, r.quantity, "active", r.user))
    /\ Dequeue(r)
    /\ UNCHANGED <<backend, purchases, transfers, expenditures>>

\* The transaction: the decrement does not look at the quantity again.
PrismaCreateAssignmentWrite(r) ==
    /\ backend = "prisma"
    /\ r.op = "createAssignment"
    /\ BagIn(r, inflight)
    /\ assets' = UpdateAsset(assets, r.id, -r.quantity, 0)
    /\ assignments' = Append(assignments, NewAssignment(r.id, r.quantity, "active", r.user))
    /\ Dequeue(r)
    /\ UNCHANGED <<backend, purchases, transfers, expenditures>>

\* PUT /api/assignments/:id/return, up to the transaction.
PrismaReturnAssignmentResponse(u, id) ==
    IF ~hasRole({"base_commander", "admin"}, u)
    THEN Respond("returnAssignment", 403, "forbidden")
    ELSE IF id \notin DOMAIN assignments
    THEN Respond("returnAssignment", 404, "not_found")
    ELSE IF assignments[id].status # "active"
    THEN Respond("returnAssignment", 400, "invalid_state")
    ELSE IF UserRole[u] # "admin"
            /\ assets[assignments[id].asset_id].base_id \notin UserBases[u]
    THEN Respond("returnAssignment", 403, "forbidden")
    ELSE Respond("returnAssignment", 200, "ok")

PrismaReturnAssignmentRead(u, id) ==
    /\ backend = "prisma"
    /\ IF PrismaReturnAssignmentResponse(u, id).status = 200
       THEN /\ InflightCount < MaxInflight
            /\ Enqueue(Request("returnAssignment", id, assignments[id].quantity, u))
       ELSE UNCHANGED inflight
    /\ UNCHANGED <<backend, ledger>>

\* The return as it would be if it only marked the assignment and put nothing
\* back on the asset row.
PrismaReturnAssignmentWriteNoRestock(r) ==
    /\ backend = "prisma"
    /\ r.op = "returnAssignment"
    /\ BagIn(r, inflight)
    /\ assignments' = [assignments EXCEPT ![r.id].status = "returned",
                                          ![r.id].returns = @ + 1]
    /\ Dequeue(r)
    /\ UNCHANGED <<backend, assets, purchases, transfers, expenditures>>

\* The transaction: the increment and the status update, whatever the status
\* is by now.
PrismaReturnAssignmentWrite(r) ==
    /\ backend = "prisma"
    /\ r.op = "returnAssignment"
    /\ BagIn(r, inflight)
    /\ assets' = UpdateAsset(assets, assignments[r.id].asset_id, r.quantity, 0)
    /\ assignments' = [assignments EXCEPT ![r.id].status = "returned",
                                          ![r.id].returns = @ + 1]
    /\ Dequeue(r)
    /\ UNCHANGED <<backend, purchases, transfers, expenditures>>

\* POST /api/assignments/expenditures, up to the transaction.  The check and
\* the decrement are on closingBalance, not on quantity.
PrismaRecordExpenditureResponse(u, a, q) ==
    IF ~hasRole({"base_commander", "admin"}, u)
    THEN Respond("recordExpenditure", 403, "forbidden")
    ELSE IF q <= 0
    THEN Respond("recordExpenditure", 400, "validation")
    ELSE IF a \notin DOMAIN assets
    THEN Respond("recordExpenditure", 404, "not_found")
    ELSE IF UserRole[u] # "admin" /\ assets[a].base_id \notin UserBases[u]
    THEN Respond("recordExpenditure", 403, "forbidden")
    ELSE IF assets[a].closing_balance < q
    THEN Respond("recordExpenditure", 400, "insufficient")
    ELSE Respond("recordExpenditure", 201, "ok")

PrismaRecordExpenditureRead(u, a, q) ==
    /\ backend = "prisma"
    /\ IF PrismaRecordExpenditureResponse(u, a, q).status = 201
       THEN /\ InflightCount < MaxInflight
            /\ RecordCount < MaxRecords
            /\ Enqueue(Request("recordExpenditure", a, q, u))
       ELSE UNCHANGED inflight
    /\ UNCHANGED <<backend, ledger>>

PrismaRecordExpenditureWrite(r) ==
    /\ backend = "prisma"
    /\ r.op = "recordExpenditure"
    /\ BagIn(r, inflight)
    /\ assets' = UpdateAsset(assets, r.id, 0, -r.quantity)
    /\ expenditures' = Append(expenditures, NewExpenditure(r.id, r.quantity, r.user))
    /\ Dequeue(r)
    /\ UNCHANGED <<backend, purchases, transfers, assignments>>

\* ------------------------------------------------- purchases (mongo)
\* updateOne with upsert: the first row of the pair is incremented; when the
\* pair has no row, one is inserted with the increment as its quantity.
UpsertAsset(as, b, e, dq) ==
    IF FindAsset(as, b, e) = 0
    THEN Append(as, NewAsset(b, e, dq, 0))
    ELSE UpdateAsset(as, FindAsset(as, b, e), dq, 0)

\* POST /api/purchases of the MongoDB router: any authenticated user.
MongoCreatePurchaseResponse(u, b, e, q, p) ==
    IF q <= 0 \/ p <= 0
    THEN Respond("createPurchase", 400, "validation")
    ELSE Respond("createPurchase", 201, "ok")

MongoCreatePurchase(u, b, e, q, p, d) ==
    /\ backend = "mongo"
    /\ IF MongoCreatePurchaseResponse(u, b, e, q, p).status = 201
       THEN /\ RecordCount < MaxRecords
            /\ purchases' = Append(purchases, NewPurchase(b, e, q, p, d, u))
            /\ assets' = UpsertAsset(assets, b, e, q)
            /\ UNCHANGED <<transfers, assignments, expenditures>>
       ELSE UNCHANGED ledger
    /\ UNCHANGED <<backend, inflight>>

\* --------------------------------------------------- assets (mongo)
\* POST /api/assets inserts a row of its own, whatever rows the pair has.
MongoCreateAsset(u, b, e, q) ==
    /\ backend = "mongo"
    /\ RecordCount < MaxRecords
    /\ assets' = Append(assets, NewAsset(b, e, IF q = 0 THEN 1 ELSE q, 0))
    /\ UNCHANGED <<backend, purchases, transfers, assignments, expenditures, inflight>>

\* -------------------------------------------------- transfers (mongo)
\* The MongoDB routers receive ids as strings and store new ObjectId(string).
\* The hexadecimal digits of an ObjectId string may be written in either case:
\* "B1" is the other spelling of the id of base "b1", and ObjectId gives both
\* the same value.
BaseIdStrings == Bases \cup {"B1"}
ObjectId(s) == IF s = "B1" THEN "b1" ELSE s

\* POST /api/transfers/request: one transaction, any authenticated user.  The
\* comparison of the two bases is on the strings of the request; the lookup
\* and the stored record use the ObjectIds.
MongoCreateTransferResponse(u, f, t, e, q) ==
    IF q <= 0
    THEN Respond("createTransfer", 400, "validation")
    ELSE IF f = t
    THEN Respond("createTransfer", 400, "validation")
    ELSE IF FindAsset(assets, ObjectId(f), e) = 0
            \/ assets[FindAsset(assets, ObjectId(f), e)].quantity < q
    THEN Respond("createTransfer", 400, "insufficient")
    ELSE Respond("createTransfer", 201, "ok")

MongoCreateTransfer(u, f, t, e, q) ==
    /\ backend = "mongo"
    /\ IF MongoCreateTransferResponse(u, f, t, e, q).status = 201
       THEN /\ RecordCount < MaxRecords
            /\ transfers' = Append(transfers, NewTransfer(ObjectId(f), ObjectId(t), e, q, u))
       ELSE UNCHANGED transfers
    /\ UNCHANGED <<backend, assets, purchases, assignments, expenditures, inflight>>

\* PUT /api/transfers/:id/approve of the MongoDB router: one transaction that
\* finds the pending transfer, checks the source row and moves the stock.
\* Every throw inside the transaction is answered with status 400.
MongoApproveResponse(u, id) ==
    IF ~hasRole({"admin", "base_commander"}, u)
    THEN Respond("approveTransfer", 403, "forbidden")
    ELSE IF id \notin DOMAIN transfers \/ transfers[id].status # "pending"
    THEN Respond("approveTransfer", 400, "invalid_state")
    ELSE IF UserRole[u] # "admin" /\ transfers[id].from_base_id \notin UserBases[u]
    THEN Respond("approveTransfer", 400, "forbidden")
    ELSE IF FindAsset(assets, transfers[id].from_base_id, transfers[id].equipment_type_id) = 0
            \/ assets[FindAsset(assets, transfers[id].from_base_id,
                                transfers[id].equipment_type_id)].quantity
                 < transfers[id].quantity
    THEN Respond("approveTransfer", 400, "insufficient")
    ELSE Respond("approveTransfer", 200, "ok")

MongoApproveTransfer(u, id, now) ==
    /\ backend = "mongo"
    /\ IF MongoApproveResponse(u, id).status = 200
       THEN LET t == transfers[id]
                src == FindAsset(assets, t.from_base_id, t.equipment_type_id)
                debited == UpdateAsset(assets, src, -t.quantity, 0)
            IN /\ assets' = UpsertAsset(debited, t.to_base_id, t.equipment_type_id,
                                        t.quantity)
               /\ transfers' = [transfers EXCEPT ![id].status = "approved",
                                                 ![id].approved_by_id = u,
                                                 ![id].approved_at = now,
                                                 ![id].debits = @ + 1,
                                                 ![id].credits = @ + 1]
       ELSE UNCHANGED <<assets, transfers>>
    /\ UNCHANGED <<backend, purchases, assignments, expenditures, inflight>>

\* PUT /api/transfers/:id/reject, up to the status update; no transaction.
\* The rejection as it would be without the check of the source base.
MongoRejectResponseAnyCommander(u, id) ==
    IF ~hasRole({"admin", "base_commander"}, u)
    THEN Respond("rejectTransfer", 403, "forbidden")
    ELSE IF id \notin DOMAIN transfers \/ transfers[id].status # "pending"
    THEN Respond("rejectTransfer", 404, "not_found")
    ELSE Respond("rejectTransfer", 200, "ok")

MongoRejectResponse(u, id) ==
    IF ~hasRole({"admin", "base_commander"}, u)
    THEN Respond("rejectTransfer", 403, "forbidden")
    ELSE IF id \notin DOMAIN transfers \/ transfers[id].status # "pending"
    THEN Respond("rejectTransfer", 404, "not_found")
    ELSE IF UserRole[u] # "admin" /\ transfers[id].from_base_id \notin UserBases[u]
    THEN Respond("rejectTransfer", 403, "forbidden")
    ELSE Respond("rejectTransfer", 200, "ok")

MongoRejectTransferRead(u, id) ==
    /\ backend = "mongo"
    /\ IF MongoRejectResponse(u, id).status = 200
       THEN /\ InflightCount < MaxInflight
            /\ Enqueue(Request("rejectTransfer", id, 0, u))
       ELSE UNCHANGED inflight
    /\ UNCHANGED <<backend, ledger>>

\* findOneAndUpdate by _id alone: the write does not look at the status again.
MongoRejectTransferWrite(r) ==
    /\ backend = "mongo"
    /\ r.op = "rejectTransfer"
    /\ BagIn(r, inflight)
    /\ transfers' = [transfers EXCEPT ![r.id].status = "rejected"]
    /\ Dequeue(r)
    /\ UNCHANGED <<backend, assets, purchases, assignments, expenditures>>

\* PUT /api/transfers/:id/complete and /cancel of the MongoDB router use
\* prisma, which that module neither imports nor declares.  parseInt of an
\* ObjectId string is a number when the string starts with a decimal digit, as
\* the ids the driver generates do (their first characters are the creation
\* time in hexadecimal), so the handler goes on to prisma.transfer, the
\* reference throws and the handler answers 500.
MongoCompleteResponse(u, id) ==
    IF ~hasRole({"logistics_officer", "admin"}, u)
    THEN Respond("completeTransfer", 403, "forbidden")
    ELSE Respond("completeTransfer", 500, "server_error")

MongoCompleteTransfer(u, id) ==
    /\ backend = "mongo"
    /\ MongoCompleteResponse(u, id).status # 200
    /\ UNCHANGED vars

MongoCancelResponse(u, id) == Respond("cancelTransfer", 500, "server_error")

MongoCancelTransfer(u, id) ==
    /\ backend = "mongo"
    /\ MongoCancelResponse(u, id).status # 200
    /\ UNCHANGED vars

\* ------------------------------- assignments and expenditures (mongo)
\* POST /api/assignments of the MongoDB router: an insert with no quantity, no
\* check of the asset and no change to it.
MongoCreateAssignment(u, a) ==
    /\ backend = "mongo"
    /\ RecordCount < MaxRecords
    /\ assignments' = Append(assignments, NewAssignment(a, 0, "assigned", u))
    /\ UNCHANGED <<backend, assets, purchases, transfers, expenditures, inflight>>

\* POST /api/assignments/:id/expenditure: pushes the body onto the assignment
\* document; the amount is money, and no asset row changes.
MongoRecordExpenditureResponse(u, id, amount) ==
    IF amount <= 0
    THEN Respond("recordExpenditure", 400, "validation")
    ELSE IF id \notin DOMAIN assignments
    THEN Respond("recordExpenditure", 404, "not_found")
    ELSE Respond("recordExpenditure", 201, "ok")

MongoRecordExpenditure(u, id, amount) ==
    /\ backend = "mongo"
    /\ IF MongoRecordExpenditureResponse(u, id, amount).status = 201
       THEN /\ RecordCount < MaxRecords
            /\ expenditures' = Append(expenditures,
                                      NewExpenditure(assignments[id].asset_id, 0, u))
       ELSE UNCHANGED expenditures
    /\ UNCHANGED <<backend, assets, purchases, transfers, assignments, inflight>>

RecordIds == 1..MaxRecords
AssetIds == 1..MaxRecords
TransferIds == 1..MaxRecords

Next ==
    \/ \E u \in Users, b \in Bases, e \in EquipmentTypes, q \in Quantities,
          p \in UnitPrices, d \in Dates :
           PrismaCreatePurchase(u, b, e, q, p, d)
    \/ \E u \in Users, id \in RecordIds : PrismaDeletePurchase(u, id)
    \/ \E u \in Users, f \in Bases, t \in Bases, e \in EquipmentTypes, q \in Quantities :
           PrismaCreateTransfer(u, f, t, e, q)
    \/ \E u \in Users, id \in TransferIds : PrismaApproveTransferRead(u, id)
    \/ \E r \in Requests, now \in Dates : PrismaApproveTransferWrite(r, now)
    \/ \E u \in Users, id \in TransferIds : PrismaCompleteTransferRead(u, id)
    \/ \E r \in Requests : PrismaCompleteTransferWrite(r)
    \/ \E u \in Users, id \in TransferIds : PrismaCancelTransferRead(u, id)
    \/ \E r \in Requests : PrismaCancelTransferWrite(r)
    \/ \E u \in Users, a \in AssetIds, q \in Quantities : PrismaCreateAssignmentRead(u, a, q)
    \/ \E r \in Requests : PrismaCreateAssignmentWrite(r)
    \/ \E u \in Users, id \in RecordIds : PrismaReturnAssignmentRead(u, id)
    \/ \E r \in Requests : PrismaReturnAssignmentWrite(r)
    \/ \E u \in Users, a \in AssetIds, q \in Quantities : PrismaRecordExpenditureRead(u, a, q)
    \/ \E r \in Requests : PrismaRecordExpenditureWrite(r)

    \/ \E u \in Users, b \in Bases, e \in EquipmentTypes, q \in Quantities,
          p \in UnitPrices, d \in Dates :
           MongoCreatePurchase(u, b, e, q, p, d)
    \/ \E u \in Users, b \in Bases, e \in EquipmentTypes, q \in Quantities :
           MongoCreateAsset(u, b, e, q)
    \/ \E u \in Users, f \in BaseIdStrings, t \in BaseIdStrings, e \in EquipmentTypes,
          q \in Quantities :
           MongoCreateTransfer(u, f, t, e, q)
    \/ \E u \in Users, id \in TransferIds, now \in Dates : MongoApproveTransfer(u, id, now)
    \/ \E u \in Users, id \in TransferIds : MongoRejectTransferRead(u, id)
    \/ \E r \in Requests : MongoRejectTransferWrite(r)
    \/ \E u \in Users, id \in TransferIds : MongoCompleteTransfer(u, id)
    \/ \E u \in Users, id \in TransferIds : MongoCancelTransfer(u, id)
    \/ \E u \in Users, a \in AssetIds : MongoCreateAssignment(u, a)
    \/ \E u \in Users, id \in RecordIds, amount \in UnitPrices :
           MongoRecordExpenditure(u, id, amount)

Spec == Init /\ [][Next]_vars
\* ------------------------------------------------------------ dispatch
\* The deployed router answers the request.  routes/transfers.js has no
\* /:id/reject and the MongoDB assignments router has no /:id/return: such a
\* request falls through to the application's 404 handler.
ApproveResponse(u, id) ==
    IF backend = "prisma" THEN PrismaApproveResponse(u, id) ELSE MongoApproveResponse(u, id)
CompleteResponse(u, id) ==
    IF backend = "prisma" THEN PrismaCompleteResponse(u, id) ELSE MongoCompleteResponse(u, id)
CancelResponse(u, id) ==
    IF backend = "prisma" THEN PrismaCancelResponse(u, id) ELSE MongoCancelResponse(u, id)
RejectResponse(u, id) ==
    IF backend = "prisma"
    THEN Respond("rejectTransfer", 404, "not_found")
    ELSE MongoRejectResponse(u, id)
ReturnAssignmentResponse(u, id) ==
    IF backend = "prisma"
    THEN PrismaReturnAssignmentResponse(u, id)
    ELSE Respond("returnAssignment", 404, "not_found")
CreateTransferResponse(u, f, t, e, q) ==
    IF backend = "prisma"
    THEN PrismaCreateTransferResponse(u, f, t, e, q)
    ELSE MongoCreateTransferResponse(u, f, t, e, q)
CreateTransfer(u, f, t, e, q) ==
    PrismaCreateTransfer(u, f, t, e, q) \/ MongoCreateTransfer(u, f, t, e, q)
\* The base ids a request can carry, and the base each of them names.
RequestBases == IF backend = "prisma" THEN Bases ELSE BaseIdStrings
BaseOf(s) == IF backend = "prisma" THEN s ELSE ObjectId(s)

\* ============================================================== claims
Pairs == Bases \X EquipmentTypes
Admins == {u \in Users : UserRole[u] = "admin"}
TerminalStatuses == {"completed", "cancelled", "rejected"}

\* C1: in every reachable state the quantity of every balance row is >= 0.
C1_BalancesNonNegative ==
    \A i \in DOMAIN assets : assets[i].quantity >= 0

\* The journal records that count for a (base, equipment type) pair.
PurchasesOf(b, e) ==
    {i \in DOMAIN purchases : /\ ~purchases[i].deleted
                              /\ purchases[i].base_id = b
                              /\ purchases[i].equipment_type_id = e}
CompletedInto(b, e) ==
    {i \in DOMAIN transfers : /\ transfers[i].status = "completed"
                              /\ transfers[i].to_base_id = b
                              /\ transfers[i].equipment_type_id = e}
CompletedOutOf(b, e) ==
    {i \in DOMAIN transfers : /\ transfers[i].status = "completed"
                              /\ transfers[i].from_base_id = b
                              /\ transfers[i].equipment_type_id = e}
OutstandingAssignments(b, e) ==
    {i \in DOMAIN assignments : /\ assignments[i].status # "returned"
                                /\ assignments[i].asset_id \in AssetRows(assets, b, e)}
ExpendituresOf(b, e) ==
    {i \in DOMAIN expenditures : expenditures[i].asset_id \in AssetRows(assets, b, e)}

\* C2: reconciliation.  In every reachable state, for every pair, the balance
\* equals purchases plus completed transfers in, minus completed transfers
\* out, minus outstanding assignments, minus expenditures.
C2_Reconciliation ==
    \A p \in Pairs :
        Balance(p[1], p[2]) =
            SumRows(purchases, PurchasesOf(p[1], p[2]))
            + SumRows(transfers, CompletedInto(p[1], p[2]))
            - SumRows(transfers, CompletedOutOf(p[1], p[2]))
            - SumRows(assignments, OutstandingAssignments(p[1], p[2]))
            - SumRows(expenditures, ExpendituresOf(p[1], p[2]))

\* C3: over the life of a transfer its quantity is taken from the source at
\* most once and added to the destination at most once, and a completed
\* transfer has moved its quantity exactly once.
C3_MovedExactlyOnce ==
    \A id \in DOMAIN transfers :
        /\ transfers[id].debits <= 1
        /\ transfers[id].credits <= 1
        /\ transfers[id].status = "completed" =>
               transfers[id].debits = 1 /\ transfers[id].credits = 1

\* C4: the only status changes of a transfer are pending -> approved,
\* approved -> completed, pending -> rejected, pending -> cancelled and
\* approved -> cancelled; no step changes a completed, cancelled or rejected
\* transfer's status.
AllowedTransitions ==
    { <<"pending", "approved">>, <<"approved", "completed">>,
      <<"pending", "rejected">>, <<"pending", "cancelled">>,
      <<"approved", "cancelled">> }
C4_StatusStep ==
    \A id \in DOMAIN transfers :
        transfers'[id].status # transfers[id].status =>
            <<transfers[id].status, transfers'[id].status>> \in AllowedTransitions
C4_OnlyAllowedTransitions == [][C4_StatusStep]_vars

\* C5: approve, complete, cancel or reject of a transfer that is completed,
\* cancelled or rejected, and return of an assignment that is returned, is
\* answered with an invalid-state error (asked by a user whose role every
\* route lets through, so that the role check does not answer first).  A
\* request answered with an error is a step that changes nothing.
C5_TerminalCallsInvalidState ==
    \A u \in Admins :
        /\ \A id \in DOMAIN transfers :
               transfers[id].status \in TerminalStatuses =>
                   /\ ApproveResponse(u, id).error = "invalid_state"
                   /\ CompleteResponse(u, id).error = "invalid_state"
                   /\ CancelResponse(u, id).error = "invalid_state"
                   /\ RejectResponse(u, id).error = "invalid_state"
        /\ \A id \in DOMAIN assignments :
               assignments[id].status = "returned" =>
                   ReturnAssignmentResponse(u, id).error = "invalid_state"
\* ---------------------------------------------- concurrent completions
\* The situation of C6 in the backend whose complete route runs: n approved
\* transfers of the same quantity q out of ("b1", "e1"), which holds exactly q
\* from one purchase; the destination row exists or not.  Only complete
\* requests are made, one for each transfer.
RaceTransfers(n, q) ==
    [i \in 1..n |->
        [NewTransfer("b1", "b2", "e1", q, "admin")
            EXCEPT !.status = "approved", !.approved_by_id = "admin", !.approved_at = 1]]

RaceInit ==
    /\ backend = "prisma"
    /\ \E n \in 2..MaxRecords, q \in 1..MaxQty :
        /\ assets \in { << NewAsset("b1", "e1", q, q) >>,
                        << NewAsset("b1", "e1", q, q), NewAsset("b2", "e1", 0, 0) >> }
        /\ purchases = << NewPurchase("b1", "e1", q, 3, 1, "admin") >>
        /\ transfers = RaceTransfers(n, q)
    /\ assignments = <<>>
    /\ expenditures = <<>>
    /\ inflight = EmptyBag

RaceCompleteRead(u, id) ==
    /\ \A r \in Requests : r.id # id
    /\ PrismaCompleteTransferRead(u, id)

RaceNext ==
    \/ \E u \in Users, id \in TransferIds : RaceCompleteRead(u, id)
    \/ \E r \in Requests : PrismaCompleteTransferWrite(r)

RaceSpec == RaceInit /\ [][RaceNext]_vars

\* C6: of the concurrent completions of approved transfers of q out of a
\* balance of exactly q, one succeeds and the others fail: never more than one
\* transfer is completed, the source balance never goes below 0 and the
\* destination never receives more than q.
C6_OneCompletionWins ==
    /\ Cardinality({id \in DOMAIN transfers : transfers[id].status = "completed"}) <= 1
    /\ Balance("b1", "e1") >= 0
    /\ Balance("b2", "e1") <= transfers[1].quantity

\* C7: a step that completes an approved transfer of q from A to B while A
\* holds at least q takes exactly q from A's balance and adds exactly q to
\* B's balance (creating B's row when there is none), in that same step.
C7_Step ==
    \A id \in DOMAIN transfers :
        LET t == transfers[id] IN
        ( /\ t.status = "approved"
          /\ transfers'[id].status = "completed"
          /\ Balance(t.from_base_id, t.equipment_type_id) >= t.quantity )
        => /\ Balance(t.from_base_id, t.equipment_type_id)'
                = Balance(t.from_base_id, t.equipment_type_id) - t.quantity
           /\ Balance(t.to_base_id, t.equipment_type_id)'
                = Balance(t.to_base_id, t.equipment_type_id) + t.quantity
           /\ AssetRows(assets', t.to_base_id, t.equipment_type_id) # {}
C7_CompleteMovesStock == [][C7_Step]_vars

\* C8: a transfer whose source balance is below its quantity is not completed:
\* no step sets its status to completed (the request fails and the status and
\* both balances stay as they are).
C8_Step ==
    \A id \in DOMAIN transfers :
        LET t == transfers[id] IN
        ( /\ t.status # "completed"
          /\ transfers'[id].status = "completed" )
        => Balance(t.from_base_id, t.equipment_type_id) >= t.quantity
C8_NoCompleteWithoutStock == [][C8_Step]_vars

\* C9: approve of a transfer that is not pending is answered with an
\* invalid-state error; a step that approves a transfer finds it pending,
\* records the approver and the approval time, and changes no balance.
C9_Step ==
    /\ \A u \in Admins, id \in DOMAIN transfers :
           transfers[id].status # "pending" =>
               ApproveResponse(u, id).error = "invalid_state"
    /\ \A id \in DOMAIN transfers :
           ( /\ transfers[id].status # "approved"
             /\ transfers'[id].status = "approved" )
           => /\ transfers[id].status = "pending"
              /\ transfers'[id].approved_by_id \in Users
              /\ transfers'[id].approved_at \in Dates
              /\ assets' = assets
C9_ApproveLeavesBalances == [][C9_Step]_vars

\* C10: createTransfer is refused when the source pair has no balance row or
\* holds less than the requested quantity, with the insufficient-balance error
\* when the request is otherwise acceptable; a step that adds to the transfers
\* is an accepted createTransfer, which appends exactly one transfer, with
\* status pending and nothing moved, and changes no balance.
C10_Refused ==
    \A u \in Users, f \in RequestBases, t \in RequestBases, e \in EquipmentTypes,
       q \in Quantities :
        (AssetRows(assets, BaseOf(f), e) = {} \/ Balance(BaseOf(f), e) < q) =>
            /\ CreateTransferResponse(u, f, t, e, q).status # 201
            /\ (u \in Admins /\ q > 0 /\ f # t) =>
                   CreateTransferResponse(u, f, t, e, q).error = "insufficient"
C10_Step ==
    Len(transfers') # Len(transfers) =>
        /\ Len(transfers') = Len(transfers) + 1
        /\ SubSeq(transfers', 1, Len(transfers)) = transfers
        /\ LET new == transfers'[Len(transfers')] IN
               /\ new.status = "pending"
               /\ new.debits = 0 /\ new.credits = 0
               /\ \E f \in RequestBases, t \in RequestBases :
                      /\ BaseOf(f) = new.from_base_id
                      /\ BaseOf(t) = new.to_base_id
                      /\ CreateTransferResponse(new.created_by_id, f, t,
                                                new.equipment_type_id,
                                                new.quantity).status = 201
        /\ UNCHANGED <<assets, purchases, assignments, expenditures>>
C11_StoredTransfersValid ==
    \A id \in DOMAIN transfers :
        /\ transfers[id].from_base_id # transfers[id].to_base_id
        /\ transfers[id].quantity > 0
\* C12: a step that cancels a transfer changes no balance, and a cancelled
\* transfer for which the complete transaction never ran has had its quantity
\* neither taken from the source nor added to the destination, whether or not
\* it was approved before it was cancelled.
C12_Cancelled ==
    \A id \in DOMAIN transfers :
        (transfers[id].status = "cancelled" /\ transfers[id].completions = 0) =>
            transfers[id].debits = 0 /\ transfers[id].credits = 0
C12_Step ==
    \A id \in DOMAIN transfers :
        ( /\ transfers[id].status # "cancelled"
          /\ transfers'[id].status = "cancelled" )
        => assets' = assets
C12_CancelLeavesBalances == []C12_Cancelled /\ [][C12_Step]_vars

\* A transfer that was approved and then cancelled, never completed, while
\* its source still holds stock.
C12_Witness ==
    \E id \in DOMAIN transfers :
        /\ transfers[id].status = "cancelled"
        /\ transfers[id].approved_by_id \in Users
        /\ transfers[id].completions = 0
        /\ Balance(transfers[id].from_base_id, transfers[id].equipment_type_id) > 0
\* C13: a step that rejects a transfer finds it pending and changes no
\* balance, and a rejected transfer has never had its quantity taken from the
\* source or added to the destination.  Stated for the transfers between two
\* different bases, so that it does not rest on C11.
C13_Step ==
    \A id \in DOMAIN transfers :
        transfers[id].from_base_id # transfers[id].to_base_id =>
            /\ transfers[id].status = "rejected" =>
                   transfers[id].debits = 0 /\ transfers[id].credits = 0
            /\ ( /\ transfers[id].status # "rejected"
                 /\ transfers'[id].status = "rejected" )
               => /\ transfers[id].status = "pending"
                  /\ transfers[id].debits = 0 /\ transfers[id].credits = 0
                  /\ assets' = assets
C13_RejectOnlyPending == [][C13_Step]_vars
\* C14: createAssignment of q against a balance below q is refused; a step
\* that creates an assignment finds at least q on the balance row, takes
\* exactly q from it and creates one assignment with status active and
\* quantity q.
C14_Step ==
    Len(assignments') # Len(assignments) =>
        /\ Len(assignments') = Len(assignments) + 1
        /\ SubSeq(assignments', 1, Len(assignments)) = assignments
        /\ LET new == assignments'[Len(assignments')] IN
               /\ new.status = "active"
               /\ new.quantity > 0
               /\ new.asset_id \in DOMAIN assets
               /\ assets[new.asset_id].quantity >= new.quantity
               /\ assets' = UpdateAsset(assets, new.asset_id, -new.quantity, 0)
C14_CreateAssignment == [][C14_Step]_vars

\* C15: over any sequence and interleaving of return calls on an assignment,
\* its quantity is added back to the balance at most once, exactly once when
\* the assignment is returned.
C15_ReturnedExactlyOnce ==
    \A id \in DOMAIN assignments :
        /\ assignments[id].returns <= 1
        /\ assignments[id].status = "returned" => assignments[id].returns = 1

\* C16: an assignment of quantity q that is created and then returned, the
\* quantity of its asset row being between the two what the creation left,
\* leaves that quantity at its value before the creation.
C16_Step ==
    \A id \in DOMAIN assignments' :
        LET new == assignments'[id]
            a == new.asset_id
        IN  /\ (id \notin DOMAIN assignments /\ new.status = "active") =>
                   /\ new.before = assets[a].quantity
                   /\ assets'[a].quantity = new.before - new.quantity
            /\ (/\ id \in DOMAIN assignments
                /\ assignments[id].status = "active"
                /\ new.status = "returned"
                /\ assets[a].quantity = new.before - new.quantity) =>
                   assets'[a].quantity = new.before
C16_RoundTrip == [][C16_Step]_vars

C16_Witness ==
    \E id \in DOMAIN assignments :
        /\ assignments[id].status = "returned"
        /\ assignments[id].returns = 1
        /\ assignments[id].quantity > 0
        /\ assets[assignments[id].asset_id].quantity = assignments[id].before

\* C17: a step that records an expenditure of quantity q takes exactly q from
\* the quantity of the asset row, the on-hand quantity that createAssignment
\* and createTransfer check.
C17_Step ==
    Len(expenditures') # Len(expenditures) =>
        /\ Len(expenditures') = Len(expenditures) + 1
        /\ SubSeq(expenditures', 1, Len(expenditures)) = expenditures
        /\ LET new == expenditures'[Len(expenditures')] IN
               new.quantity > 0 =>
                   /\ new.asset_id \in DOMAIN assets
                   /\ assets'[new.asset_id].quantity
                          = assets[new.asset_id].quantity - new.quantity
                   /\ LET b == assets[new.asset_id].base_id
                          e == assets[new.asset_id].equipment_type_id
                      IN  SumRows(assets', AssetRows(assets', b, e))
                              = Balance(b, e) - new.quantity
C17_ExpenditureDecreasesBalance == [][C17_Step]_vars

\* C18: while the quantity of an asset row is below q, recordExpenditure of q
\* on that row is answered with insufficient balance; and a refused
\* recordExpenditure writes no expenditure and changes no balance (refused
\* requests take no step, so the second half is in the handlers' guards).
C18_Refused ==
    backend = "prisma" =>
        \A u \in Admins, a \in DOMAIN assets, q \in 1..MaxQty :
            q > assets[a].quantity =>
                PrismaRecordExpenditureResponse(u, a, q).error = "insufficient"

\* C19: a step that records a purchase appends exactly one purchase record,
\* whose totalAmount is quantity times unitPrice, and adds its quantity to the
\* balance of its (base, equipment type), a row holding that quantity being
\* created when the pair had none.
C19_Step ==
    Len(purchases') # Len(purchases) =>
        /\ Len(purchases') = Len(purchases) + 1
        /\ SubSeq(purchases', 1, Len(purchases)) = purchases
        /\ LET new == purchases'[Len(purchases')]
               b == new.base_id
               e == new.equipment_type_id
           IN  /\ new.quantity > 0
               /\ new.totalAmount = new.quantity * new.unitPrice
               /\ SumRows(assets', AssetRows(assets', b, e))
                      = Balance(b, e) + new.quantity
               /\ AssetRows(assets, b, e) = {} =>
                      \E i \in AssetRows(assets', b, e) :
                          assets'[i].quantity = new.quantity
C19_RecordPurchase == [][C19_Step]_vars

\* C20: journal records are append-only.  No step shortens a journal, no step
\* deletes a purchase, and the fields of a stored purchase never change.
C20_Step ==
    /\ Len(purchases') >= Len(purchases)
    /\ Len(transfers') >= Len(transfers)
    /\ Len(assignments') >= Len(assignments)
    /\ Len(expenditures') >= Len(expenditures)
    /\ \A id \in DOMAIN purchases : purchases'[id] = purchases[id]
C20_JournalAppendOnly == [][C20_Step]_vars

\* C21: no step writes a journal record without its balance adjustment, or
\* adjusts a balance without a journal record or a status change: a step that
\* appends a purchase, an active assignment or an expenditure changes an asset
\* row, a step that completes a transfer debits the source and credits the
\* destination, and a step that changes the quantity of an existing asset row
\* changes a journal.  (A request that is answered with a failure takes no
\* step at all: the handlers write only in their last, transactional step.)
C21_Step ==
    /\ Len(purchases') > Len(purchases) => assets' # assets
    /\ (/\ Len(assignments') > Len(assignments)
        /\ assignments'[Len(assignments')].status = "active") => assets' # assets
    /\ (/\ Len(expenditures') > Len(expenditures)
        /\ expenditures'[Len(expenditures')].quantity > 0) => assets' # assets
    /\ \A id \in DOMAIN transfers :
           (transfers[id].status # "completed" /\ transfers'[id].status = "completed")
               => /\ transfers'[id].debits = transfers[id].debits + 1
                  /\ transfers'[id].credits = transfers[id].credits + 1
    /\ (\E a \in DOMAIN assets : assets'[a] # assets[a])
           => <<purchases, transfers, assignments, expenditures>>'
                  # <<purchases, transfers, assignments, expenditures>>
C21_JournalAndBalanceTogether == [][C21_Step]_vars

\* C22: the check of a balance and its reduction are one atomic step: a step
\* that reduces the quantity or the closing balance of an asset row finds at
\* least the amount it takes, so it never leaves the row below 0 (of two
\* concurrent reductions against stock sufficient for one, only one succeeds).
C22_Step ==
    \A a \in DOMAIN assets :
        /\ assets'[a].quantity < assets[a].quantity => assets'[a].quantity >= 0
        /\ assets'[a].closing_balance < assets[a].closing_balance
               => assets'[a].closing_balance >= 0
C22_CheckAndWriteAtomic == [][C22_Step]_vars

\* The sum of f over the finite set S.
RECURSIVE SumFn(_, _)
SumFn(f, S) ==
    IF S = {} THEN 0
    ELSE LET x == CHOOSE y \in S : TRUE IN f[x] + SumFn(f, S \ {x})

\* C23: no lost update.  Every step changes the balance of every pair by
\* exactly the sum of the adjustments that the step's journal changes stand
\* for, whatever other requests are under way: +q for a purchase, -q for each
\* debit and +q for each credit of a transfer, -q for a new active assignment
\* and +q for each return.  (A pair without a row has no balance to adjust in
\* the Prisma routers, and POST /api/assets inserts a row, which is not an
\* adjustment.)
C23_Step ==
    \A p \in Pairs :
        LET b == p[1]
            e == p[2]
            rows == AssetRows(assets, b, e)
            newPurchases == {i \in DOMAIN purchases' \ DOMAIN purchases :
                                /\ purchases'[i].base_id = b
                                /\ purchases'[i].equipment_type_id = e
                                /\ (backend = "mongo" \/ rows # {})}
            newAssignments == {i \in DOMAIN assignments' \ DOMAIN assignments :
                                  /\ assignments'[i].asset_id \in rows
                                  /\ assignments'[i].status = "active"}
            oldAssignments == {i \in DOMAIN assignments :
                                  assignments[i].asset_id \in rows}
            moved == [i \in DOMAIN transfers |->
                         (IF transfers[i].to_base_id = b /\ transfers[i].equipment_type_id = e
                          THEN (transfers'[i].credits - transfers[i].credits)
                                   * transfers[i].quantity
                          ELSE 0)
                         - (IF transfers[i].from_base_id = b
                               /\ transfers[i].equipment_type_id = e
                            THEN (transfers'[i].debits - transfers[i].debits)
                                     * transfers[i].quantity
                            ELSE 0)]
            returned == [i \in DOMAIN assignments |->
                            (assignments'[i].returns - assignments[i].returns)
                                * assignments[i].quantity]
            journalsKept == <<purchases, transfers, assignments>>'
                                = <<purchases, transfers, assignments>>
        IN  ~journalsKept =>
                SumRows(assets', AssetRows(assets', b, e)) - Balance(b, e)
                    = SumRows(purchases', newPurchases)
                      - SumRows(assignments', newAssignments)
                      + SumFn(moved, DOMAIN transfers)
                      + SumFn(returned, oldAssignments)
Tx(r, n) ==
    [op |-> r.op, id |-> r.id, quantity |-> r.quantity, user |-> r.user, updates |-> n]

Started(r) == "updates" \in DOMAIN r

SourceRows(r) ==
    AssetRows(assets, transfers[r.id].from_base_id, transfers[r.id].equipment_type_id)

DestinationRows(r) ==
    AssetRows(assets, transfers[r.id].to_base_id, transfers[r.id].equipment_type_id)

Held(r) ==
    IF ~Started(r) \/ r.updates = 0 THEN {}
    ELSE IF r.updates = 1 THEN SourceRows(r)
    ELSE SourceRows(r) \cup DestinationRows(r)

Wanted(r) ==
    IF ~Started(r) \/ r.updates = 0 THEN SourceRows(r)
    ELSE IF r.updates = 1 THEN DestinationRows(r)
    ELSE {}

WaitsFor(r, r2) == r # r2 /\ Wanted(r) \cap Held(r2) # {}

Blocked(r) == \E r2 \in Requests : WaitsFor(r, r2)

Deadlocked(r) == \E r2 \in Requests : WaitsFor(r, r2) /\ WaitsFor(r2, r)

LockInit ==
    /\ backend = "prisma"
    /\ \E qa, qb \in 1..MaxQty, reverse \in BOOLEAN :
        /\ assets = << NewAsset("b1", "e1", qa, qa), NewAsset("b2", "e1", qb, qb) >>
        /\ purchases = << NewPurchase("b1", "e1", qa, 3, 1, "admin"),
                          NewPurchase("b2", "e1", qb, 3, 1, "admin") >>
        /\ \E q1 \in 1..qa, q2 \in 1..(IF reverse THEN qb ELSE qa) :
            transfers =
              << [NewTransfer("b1", "b2", "e1", q1, "admin")
                     EXCEPT !.status = "approved", !.approved_by_id = "admin",
                            !.approved_at = 1],
                 [(IF reverse THEN NewTransfer("b2", "b1", "e1", q2, "admin")
                              ELSE NewTransfer("b1", "b2", "e1", q2, "admin"))
                     EXCEPT !.status = "approved", !.approved_by_id = "admin",
                            !.approved_at = 1] >>
    /\ assignments = <<>>
    /\ expenditures = <<>>
    /\ inflight = EmptyBag

\* prisma.$transaction begins.
TxBegin(r) ==
    /\ r.op = "completeTransfer"
    /\ ~Started(r)
    /\ inflight' = (inflight (-) SetToBag({r})) (+) SetToBag({Tx(r, 0)})
    /\ UNCHANGED <<backend, ledger>>

\* One updateMany: the source rows first, the destination rows second.
TxUpdate(r) ==
    /\ Started(r)
    /\ r.updates < 2
    /\ ~Blocked(r)
    /\ inflight' = (inflight (-) SetToBag({r})) (+) SetToBag({Tx(r, r.updates + 1)})
    /\ UNCHANGED <<backend, ledger>>

\* The status update and the commit.
TxCommit(r) ==
    /\ Started(r)
    /\ r.updates = 2
    /\ PrismaCompleteTransferWrite(r)

\* The database ends a cycle of waiting transactions by aborting one of them:
\* the transaction is rolled back and the request is answered 500.
TxAbort(r) ==
    /\ Started(r)
    /\ Deadlocked(r)
    /\ Dequeue(r)
    /\ UNCHANGED <<backend, ledger>>

LockNext ==
    \/ \E u \in Users, id \in TransferIds : RaceCompleteRead(u, id)
    \/ \E r \in Requests : TxBegin(r)
    \/ \E r \in Requests : TxUpdate(r)
    \/ \E r \in Requests : TxCommit(r)
    \/ \E r \in Requests : TxAbort(r)

LockSpec == LockInit /\ [][LockNext]_vars

\* C24: the complete transactions lock the balance rows in one global order
\* whatever the direction of the transfer, so no two of them ever wait for
\* each other.
C24_NoWaitCycle ==
    \A r \in Requests : ~Deadlocked(r)

\* C25: in every reachable state a (base, equipment type) pair has at most one
\* balance row.
C25_OneRowPerPair ==
    \A p \in Pairs : Cardinality(AssetRows(assets, p[1], p[2])) <= 1

\* ------------------------------------------------- dashboard metrics (mongo)
\* GET /api/dashboard/metrics.  A query parameter that is absent is NULL for
\* the ids and NoDate for the dates; LaterDate is a date after every date a
\* stored record carries, and "e2" names an equipment type without records.
NoDate == 0
LaterDate == MaxDate + 1
QueryDates == NoDate..LaterDate
QueryBases == Bases \cup {NULL}
QueryEquipmentTypes == EquipmentTypes \cup {NULL, "e2"}

\* The bases the handler aggregates over.
authorizedBaseIds(u, baseId) ==
    IF UserRole[u] # "admin" /\ UserBases[u] # {}
    THEN IF baseId \in UserBases[u] THEN {baseId} ELSE UserBases[u]
    ELSE IF baseId # NULL THEN {baseId} \cap Bases ELSE Bases

\* dateFilter: $gte startDate and $lte endDate, each when given.
dateFilter(d, startDate, endDate) ==
    /\ (startDate # NoDate => d >= startDate)
    /\ (endDate # NoDate => d <= endDate)

\* The variant that leaves transfers_out out of net_movement.
GetMetricsNetWithoutTransfersOut(u, baseId, equipmentTypeId, startDate, endDate) ==
    LET auth == authorizedBaseIds(u, baseId)
        opening_balance == Cardinality({i \in DOMAIN assets : assets[i].base_id \in auth})
        purchasesTotal ==
            SumRows(purchases, {i \in DOMAIN purchases :
                /\ purchases[i].base_id \in auth
                /\ dateFilter(purchases[i].purchaseDate, startDate, endDate)})
        transfers_in ==
            SumRows(transfers, {i \in DOMAIN transfers :
                /\ transfers[i].to_base_id \in auth
                /\ transfers[i].status = "approved"
                /\ dateFilter(transfers[i].approved_at, startDate, endDate)})
        transfers_out ==
            SumRows(transfers, {i \in DOMAIN transfers :
                /\ transfers[i].from_base_id \in auth
                /\ transfers[i].status = "approved"
                /\ dateFilter(transfers[i].approved_at, startDate, endDate)})
        net_movement == purchasesTotal + transfers_in
    IN  [opening_balance |-> opening_balance,
         closing_balance |-> opening_balance + net_movement,
         net_movement |-> net_movement,
         purchases |-> purchasesTotal,
         transfers_in |-> transfers_in,
         transfers_out |-> transfers_out,
         assigned |-> 0,
         expended |-> 0]

\* The variant whose closing_balance is the opening balance alone.
GetMetricsClosingIsOpening(u, baseId, equipmentTypeId, startDate, endDate) ==
    [GetMetricsNetWithoutTransfersOut(u, baseId, equipmentTypeId, startDate, endDate)
        EXCEPT !.net_movement = @ - GetMetricsNetWithoutTransfersOut(
                                        u, baseId, equipmentTypeId, startDate,
                                        endDate).transfers_out,
               !.closing_balance = GetMetricsNetWithoutTransfersOut(
                                       u, baseId, equipmentTypeId, startDate,
                                       endDate).opening_balance]

\* The handler: equipmentTypeId is read from the query and used in no filter;
\* opening_balance is a count of asset documents; assigned and expended are
\* the constant 0.
GetMetrics(u, baseId, equipmentTypeId, startDate, endDate) ==
    LET auth == authorizedBaseIds(u, baseId)
        opening_balance == Cardinality({i \in DOMAIN assets : assets[i].base_id \in auth})
        purchasesTotal ==
            SumRows(purchases, {i \in DOMAIN purchases :
                /\ purchases[i].base_id \in auth
                /\ dateFilter(purchases[i].purchaseDate, startDate, endDate)})
        transfers_in ==
            SumRows(transfers, {i \in DOMAIN transfers :
                /\ transfers[i].to_base_id \in auth
                /\ transfers[i].status = "approved"
                /\ dateFilter(transfers[i].approved_at, startDate, endDate)})
        transfers_out ==
            SumRows(transfers, {i \in DOMAIN transfers :
                /\ transfers[i].from_base_id \in auth
                /\ transfers[i].status = "approved"
                /\ dateFilter(transfers[i].approved_at, startDate, endDate)})
        assigned == 0
        expended == 0
        net_movement == purchasesTotal + transfers_in - transfers_out
        closing_balance == opening_balance + net_movement
    IN  [opening_balance |-> opening_balance,
         closing_balance |-> closing_balance,
         net_movement |-> net_movement,
         purchases |-> purchasesTotal,
         transfers_in |-> transfers_in,
         transfers_out |-> transfers_out,
         assigned |-> assigned,
         expended |-> expended]

\* C26: in every result of getMetrics, net_movement is purchases +
\* transfers_in - transfers_out - expended of the values reported with it; the
\* assigned value is no term of it.
C26_NetMovement ==
    backend = "mongo" =>
        \A u \in Users, b \in QueryBases, e \in QueryEquipmentTypes,
           s \in QueryDates, t \in QueryDates :
            LET m == GetMetrics(u, b, e, s, t) IN
                m.net_movement = m.purchases + m.transfers_in - m.transfers_out - m.expended

C26_Witness ==
    \E r \in Requests :
        /\ r.op = "getMetrics"
        /\ r.metrics.purchases > 0
        /\ r.metrics.transfers_out > 0
        /\ r.metrics.transfers_in = 0
        /\ r.metrics.net_movement = r.metrics.purchases - r.metrics.transfers_out

\* C27: in every result of getMetrics, closing_balance is opening_balance plus
\* net_movement.
C27_ClosingBalance ==
    backend = "mongo" =>
        \A u \in Users, b \in QueryBases, e \in QueryEquipmentTypes,
           s \in QueryDates, t \in QueryDates :
            LET m == GetMetrics(u, b, e, s, t) IN
                m.closing_balance = m.opening_balance + m.net_movement

C27_Witness ==
    \E r \in Requests :
        /\ r.op = "getMetrics"
        /\ r.metrics.opening_balance > 0
        /\ r.metrics.net_movement > 0
        /\ r.metrics.closing_balance > r.metrics.opening_balance

\* C28: the purchases, transfers_in and transfers_out values of getMetrics are
\* the sums of the quantities of the purchase and transfer records dated within
\* the requested range, of the bases the handler aggregates over and, when an
\* equipment type is given, of that equipment type.  (The assignment and
\* expenditure documents of this backend carry no quantity, so assigned and
\* expended are the empty sum 0.)
C28_SumsOfSlice ==
    backend = "mongo" =>
        \A u \in Users, b \in QueryBases, e \in QueryEquipmentTypes,
           s \in QueryDates, t \in QueryDates :
            LET m == GetMetrics(u, b, e, s, t)
                auth == authorizedBaseIds(u, b)
                ofType(r) == e = NULL \/ r.equipment_type_id = e
            IN  /\ m.purchases =
                       SumRows(purchases, {i \in DOMAIN purchases :
                           /\ purchases[i].base_id \in auth
                           /\ ofType(purchases[i])
                           /\ dateFilter(purchases[i].purchaseDate, s, t)})
                /\ m.transfers_in =
                       SumRows(transfers, {i \in DOMAIN transfers :
                           /\ transfers[i].to_base_id \in auth
                           /\ ofType(transfers[i])
                           /\ transfers[i].status = "approved"
                           /\ dateFilter(transfers[i].approved_at, s, t)})
                /\ m.transfers_out =
                       SumRows(transfers, {i \in DOMAIN transfers :
                           /\ transfers[i].from_base_id \in auth
                           /\ ofType(transfers[i])
                           /\ transfers[i].status = "approved"
                           /\ dateFilter(transfers[i].approved_at, s, t)})
                /\ m.assigned = SumRows(assignments, DOMAIN assignments)
                /\ m.expended = SumRows(expenditures, DOMAIN expenditures)

\* C29: the opening_balance of getMetrics for a range that starts after every
\* stored date is the sum of the quantities of the asset rows of the bases the
\* handler aggregates over.
C29_OpeningBalance ==
    backend = "mongo" =>
        \A u \in Users, b \in QueryBases :
            GetMetrics(u, b, NULL, LaterDate, NoDate).opening_balance
                = SumRows(assets, {i \in DOMAIN assets :
                                      assets[i].base_id \in authorizedBaseIds(u, b)})

\* ----------------------------------------------- getMetrics as a request
\* The metrics handler next to the handlers whose records it aggregates.  A
\* request is in flight from the moment the handler has computed its result
\* until res.json has sent it; metrics is the result.  While results are in
\* flight no ledger request is served, so that results in flight together were
\* computed with no ledger operation in between.
MetricsResult(u, baseId, equipmentTypeId, startDate, endDate) ==
    [op |-> "getMetrics", user |-> u, baseId |-> baseId,
     equipmentTypeId |-> equipmentTypeId, startDate |-> startDate,
     endDate |-> endDate,
     metrics |-> GetMetrics(u, baseId, equipmentTypeId, startDate, endDate)]

SameQuery(r1, r2) ==
    /\ r1.user = r2.user
    /\ r1.baseId = r2.baseId
    /\ r1.equipmentTypeId = r2.equipmentTypeId
    /\ r1.startDate = r2.startDate
    /\ r1.endDate = r2.endDate

\* The handler as it would be if it stored the closing balance it computed on
\* the asset rows it counted.
MongoGetMetricsStoringClosingBalance(u, baseId, equipmentTypeId, startDate, endDate) ==
    /\ backend = "mongo"
    /\ InflightCount < MaxInflight
    /\ \A r \in Requests :
           SameQuery(r, MetricsResult(u, baseId, equipmentTypeId, startDate, endDate))
    /\ Enqueue(MetricsResult(u, baseId, equipmentTypeId, startDate, endDate))
    /\ assets' = [i \in DOMAIN assets |->
                     IF assets[i].base_id \in authorizedBaseIds(u, baseId)
                     THEN [assets[i] EXCEPT !.closing_balance =
                              GetMetrics(u, baseId, equipmentTypeId, startDate,
                                         endDate).closing_balance]
                     ELSE assets[i]]
    /\ UNCHANGED <<backend, purchases, transfers, assignments, expenditures>>

\* GET /api/dashboard/metrics: find, countDocuments and aggregate only.
MongoGetMetrics(u, baseId, equipmentTypeId, startDate, endDate) ==
    /\ backend = "mongo"
    /\ InflightCount < MaxInflight
    /\ \A r \in Requests :
           SameQuery(r, MetricsResult(u, baseId, equipmentTypeId, startDate, endDate))
    /\ Enqueue(MetricsResult(u, baseId, equipmentTypeId, startDate, endDate))
    /\ UNCHANGED <<backend, ledger>>

\* res.json has sent the result.
MetricsSent(r) ==
    /\ r.op = "getMetrics"
    /\ Dequeue(r)
    /\ UNCHANGED <<backend, ledger>>

MetricsInit == Init /\ backend = "mongo"

\* No metrics result is in flight.
MetricsIdle == inflight = EmptyBag

MetricsNext ==
    \/ \E u \in Users, b \in Bases, e \in EquipmentTypes, q \in Quantities,
          p \in UnitPrices, d \in Dates :
           MetricsIdle /\ MongoCreatePurchase(u, b, e, q, p, d)
    \/ \E u \in Users, b \in Bases, e \in EquipmentTypes, q \in Quantities :
           MetricsIdle /\ MongoCreateAsset(u, b, e, q)
    \/ \E u \in Users, f \in BaseIdStrings, t \in BaseIdStrings,
          e \in EquipmentTypes, q \in Quantities :
           MetricsIdle /\ MongoCreateTransfer(u, f, t, e, q)
    \/ \E u \in Users, id \in TransferIds, now \in Dates :
           MetricsIdle /\ MongoApproveTransfer(u, id, now)
    \/ \E u \in Users, b \in QueryBases, s \in {NoDate, LaterDate} :
           MongoGetMetrics(u, b, NULL, s, NoDate)
    \/ \E r \in Requests : MetricsSent(r)

MetricsSpec == MetricsInit /\ [][MetricsNext]_vars

\* C30: getMetrics is read-only and idempotent.  A step that puts a metrics
\* result in flight or sends one changes no balance, journal record or
\* status, and two results for the same query, computed with no ledger
\* operation in between, are equal.
C30_SameResult ==
    \A r1, r2 \in Requests : SameQuery(r1, r2) => r1.metrics = r2.metrics

C30_Step == inflight' # inflight => ledger' = ledger

C30_ReadOnlyIdempotent == []C30_SameResult /\ [][C30_Step]_vars

C30_Witness ==
    \E r \in Requests :
        /\ r.op = "getMetrics"
        /\ CopiesIn(r, inflight) = 2
        /\ r.metrics.purchases > 0
        /\ r.metrics.opening_balance > 0

\* C31: a pending transfer is approved or rejected only through a request by
\* an admin or by a user with authority over its source base: the approver the
\* record carries and the user of every approve or reject request that has
\* passed the checks are such users, a transfer becomes rejected only through
\* such a request, and while a transfer is pending every other user's approve
\* request (and reject request, where the route exists) is answered as
\* forbidden.
C31_Authorized ==
    /\ \A id \in DOMAIN transfers :
           transfers[id].approved_by_id # NULL =>
               hasBaseAccess(transfers[id].approved_by_id, transfers[id].from_base_id)
    /\ \A r \in Requests :
           r.op \in {"approveTransfer", "rejectTransfer"} =>
               hasBaseAccess(r.user, transfers[r.id].from_base_id)
    /\ \A id \in DOMAIN transfers, u \in Users :
           (transfers[id].status = "pending"
               /\ ~hasBaseAccess(u, transfers[id].from_base_id)) =>
               /\ ApproveResponse(u, id).error = "forbidden"
               /\ backend = "mongo" => RejectResponse(u, id).error = "forbidden"

C31_Step ==
    \A id \in DOMAIN transfers :
        /\ (transfers[id].status # "rejected" /\ transfers'[id].status = "rejected") =>
               \E r \in Requests : r.op = "rejectTransfer" /\ r.id = id
        /\ (transfers[id].status # "approved" /\ transfers'[id].status = "approved") =>
               transfers'[id].approved_by_id \in Users

MayCancel(u, id) ==
    \/ UserRole[u] = "admin"
    \/ u = transfers[id].created_by_id
    \/ /\ UserRole[u] = "base_commander"
       /\ \/ transfers[id].from_base_id \in UserBases[u]
          \/ transfers[id].to_base_id \in UserBases[u]

C32_OtherActorsForbidden ==
    \A id \in DOMAIN transfers, u \in Users :
        (transfers[id].status \notin {"completed", "cancelled"} /\ ~MayCancel(u, id)) =>
            CancelResponse(u, id).error = "forbidden"

\* ------------------------------------------------------------ audit sink
\* The handlers of routes/transfers.js and POST /api/purchases with their
\* continuation after the write: logTransaction(req, ...) is called without
\* await once the awaited write or transaction has returned, and the response
\* is sent in the same turn.  The call in flight carries the action it logs,
\* the record it names, the user and the status the handler has answered.
AuditCall(u, action, recordId, status) ==
    [op |-> "logTransaction", action |-> action, id |-> recordId,
     quantity |-> 0, user |-> u, status |-> status]

AuditCalls == { r \in Requests : r.op = "logTransaction" }

Handoff(r, call) == inflight' = (inflight (-) SetToBag({r})) (+) SetToBag({call})

AuditInit == Init /\ backend = "prisma" /\ assets # <<>>

AuditCreatePurchase(u, b, e, q, p, d) ==
    /\ backend = "prisma"
    /\ IF PrismaCreatePurchaseResponse(u, b, e, q, p).status = 201
       THEN /\ RecordCount < MaxRecords
            /\ InflightCount < MaxInflight
            /\ purchases' = Append(purchases, NewPurchase(b, e, q, p, d, u))
            /\ assets' = UpdateManyAssets(assets, b, e, q, q)
            /\ Enqueue(AuditCall(u, "create_purchase", Len(purchases) + 1, 201))
            /\ UNCHANGED <<transfers, assignments, expenditures>>
       ELSE UNCHANGED <<ledger, inflight>>
    /\ UNCHANGED backend

AuditCreateTransfer(u, f, t, e, q) ==
    /\ backend = "prisma"
    /\ IF PrismaCreateTransferResponse(u, f, t, e, q).status = 201
       THEN /\ RecordCount < MaxRecords
            /\ InflightCount < MaxInflight
            /\ transfers' = Append(transfers, NewTransfer(f, t, e, q, u))
            /\ Enqueue(AuditCall(u, "create_transfer_request", Len(transfers) + 1, 201))
       ELSE UNCHANGED <<transfers, inflight>>
    /\ UNCHANGED <<backend, assets, purchases, assignments, expenditures>>

AuditApproveTransferWrite(r, now) ==
    /\ backend = "prisma"
    /\ r.op = "approveTransfer"
    /\ BagIn(r, inflight)
    /\ transfers' = [transfers EXCEPT ![r.id].status = "approved",
                                      ![r.id].approved_by_id = r.user,
                                      ![r.id].approved_at = now]
    /\ Handoff(r, AuditCall(r.user, "approve_transfer", r.id, 200))
    /\ UNCHANGED <<backend, assets, purchases, assignments, expenditures>>

AuditCompleteTransferWrite(r) ==
    /\ backend = "prisma"
    /\ r.op = "completeTransfer"
    /\ BagIn(r, inflight)
    /\ LET t == transfers[r.id]
           debited == UpdateManyAssets(assets, t.from_base_id, t.equipment_type_id,
                                       -t.quantity, -t.quantity)
           credited == UpdateManyAssets(debited, t.to_base_id, t.equipment_type_id,
                                        t.quantity, t.quantity)
           d == IF AssetRows(assets, t.from_base_id, t.equipment_type_id) # {}
                THEN 1 ELSE 0
           c == IF AssetRows(assets, t.to_base_id, t.equipment_type_id) # {}
                THEN 1 ELSE 0
       IN /\ assets' = credited
          /\ transfers' = [transfers EXCEPT ![r.id].status = "completed",
                                            ![r.id].debits = @ + d,
                                            ![r.id].credits = @ + c,
                                            ![r.id].completions = @ + 1]
    /\ Handoff(r, AuditCall(r.user, "complete_transfer", r.id, 200))
    /\ UNCHANGED <<backend, purchases, assignments, expenditures>>

AuditCancelTransferWrite(r) ==
    /\ backend = "prisma"
    /\ r.op = "cancelTransfer"
    /\ BagIn(r, inflight)
    /\ transfers' = [transfers EXCEPT ![r.id].status = "cancelled"]
    /\ Handoff(r, AuditCall(r.user, "cancel_transfer", r.id, 200))
    /\ UNCHANGED <<backend, assets, purchases, assignments, expenditures>>

\* logTransaction as it would be if a failed insert undid the write it logs.
LogTransactionSettlesUndoing(r, ok) ==
    /\ r.op = "logTransaction"
    /\ BagIn(r, inflight)
    /\ Dequeue(r)
    /\ IF ~ok /\ r.action = "complete_transfer"
       THEN transfers' = [transfers EXCEPT ![r.id].status = "approved"]
       ELSE UNCHANGED transfers
    /\ UNCHANGED <<backend, assets, purchases, assignments, expenditures>>

\* The body of logTransaction: the insert into the audit log is acknowledged
\* (ok) or throws; the catch around the whole body logs the error and the
\* promise, which no handler awaits, resolves either way.
LogTransactionSettles(r, ok) ==
    /\ r.op = "logTransaction"
    /\ BagIn(r, inflight)
    /\ \/ ok
       \/ ~ok
    /\ Dequeue(r)
    /\ UNCHANGED <<backend, ledger>>

AuditNext ==
    \/ \E u \in Users, b \in Bases, e \in EquipmentTypes, q \in Quantities,
          p \in UnitPrices, d \in Dates : AuditCreatePurchase(u, b, e, q, p, d)
    \/ \E u \in Users, f \in Bases, t \in Bases, e \in EquipmentTypes, q \in Quantities :
           AuditCreateTransfer(u, f, t, e, q)
    \/ \E u \in Users, id \in TransferIds : PrismaApproveTransferRead(u, id)
    \/ \E r \in Requests, now \in Dates : AuditApproveTransferWrite(r, now)
    \/ \E u \in Users, id \in TransferIds : PrismaCompleteTransferRead(u, id)
    \/ \E r \in Requests : AuditCompleteTransferWrite(r)
    \/ \E u \in Users, id \in TransferIds : PrismaCancelTransferRead(u, id)
    \/ \E r \in Requests : AuditCancelTransferWrite(r)
    \/ \E r \in Requests, ok \in BOOLEAN : LogTransactionSettles(r, ok)

AuditSpec == AuditInit /\ [][AuditNext]_vars

\* C33: the audit sink is called only in the step that commits the ledger
\* write it logs and with a success answer, and the step in which the call
\* settles, acknowledged or failed, leaves the ledger as it is.
Committed(r) ==
    CASE r.action = "create_purchase" ->
             Len(purchases') = Len(purchases) + 1 /\ r.id = Len(purchases')
      [] r.action = "create_transfer_request" ->
             Len(transfers') = Len(transfers) + 1 /\ r.id = Len(transfers')
      [] r.action = "approve_transfer" ->
             transfers'[r.id].status = "approved" /\ transfers'[r.id].approved_by_id = r.user
      [] r.action = "complete_transfer" ->
             /\ transfers'[r.id].status = "completed"
             /\ transfers'[r.id].completions = transfers[r.id].completions + 1
      [] r.action = "cancel_transfer" -> transfers'[r.id].status = "cancelled"
      [] OTHER -> FALSE

C33_Step ==
    inflight' # inflight =>
        /\ \A r \in Requests' :
               (r.op = "logTransaction" /\ CopiesIn(r, inflight') > CopiesIn(r, inflight)) =>
                   Committed(r) /\ r.status \in {200, 201}
        /\ \A r \in Requests :
               (r.op = "logTransaction" /\ CopiesIn(r, inflight') < CopiesIn(r, inflight)) =>
                   ledger' = ledger

C33_AuditAfterCommit == [][C33_Step]_vars

C33_Witness ==
    \E r \in AuditCalls :
        /\ r.action = "complete_transfer"
        /\ transfers[r.id].status = "completed"
        /\ transfers[r.id].debits = 1

\* C34: when more than one completeTransfer request has run for the same
\* transfer, its quantity has still been taken from the source at most once
\* and added to the destination at most once.
C34_ConcurrentCompletesMoveOnce ==
    \A id \in DOMAIN transfers :
        transfers[id].completions > 1 =>
            transfers[id].debits <= 1 /\ transfers[id].credits <= 1

\* C35: whatever the interleaving of cancelTransfer and completeTransfer on a
\* transfer, a cancelled transfer has moved no quantity: the complete
\* transaction has not run for it and no row was debited or credited.
C35_CancelledNeverMoved ==
    \A id \in DOMAIN transfers :
        transfers[id].status = "cancelled" =>
            /\ transfers[id].completions = 0
            /\ transfers[id].debits = 0
            /\ transfers[id].credits = 0

\* C36: of an approveTransfer and a rejectTransfer on the same pending
\* transfer at most one succeeds: no transfer carries both an approver and the
\* status rejected, and a rejected transfer has moved no quantity.
C36_ApproveXorReject ==
    \A id \in DOMAIN transfers :
        transfers[id].status = "rejected" =>
            /\ transfers[id].approved_by_id = NULL
            /\ transfers[id].debits = 0
            /\ transfers[id].credits = 0

\* C37: a step of a transfer operation (one that changes a transfer record)
\* leaves the sum of the quantities of all rows of every equipment type
\* unchanged.
TypeRows(rows, e) == { i \in DOMAIN rows : rows[i].equipment_type_id = e }

TotalQuantity(rows, e) == SumRows(rows, TypeRows(rows, e))

C37_Step ==
    transfers' # transfers =>
        \A e \in EquipmentTypes : TotalQuantity(assets', e) = TotalQuantity(assets, e)

C37_TransfersConserveTotal == [][C37_Step]_vars

\* C38: the closing_balance that getMetrics returns for a query without a
\* date range is the sum of the current quantities of the asset rows of the
\* bases the query is about.
BaseRows(rows, B) == { i \in DOMAIN rows : rows[i].base_id \in B }

C38_ClosingIsCurrentStock ==
    backend = "mongo" =>
        \A u \in Users, b \in QueryBases :
            GetMetrics(u, b, NULL, NoDate, NoDate).closing_balance
                = SumRows(assets, BaseRows(assets, authorizedBaseIds(u, b)))
====
